---- MODULE Spec2Model ----
(***************************************************************************)
(* Stock-mutation pipeline of server.js: the three handlers                *)
(* POST /api/stock/add, /api/stock/increase and /api/stock/decrease, the   *)
(* low-stock alert (sendLowStockAlert) and the mail transport (sendEmail), *)
(* over the Stock, Staff, StockLog and Enquiry collections.                *)
(*                                                                         *)
(* A handler is an async function: every `await` is a point where other    *)
(* requests run.  One action of the model is the code between two awaits,  *)
(* together with the storage operation the await waits for.  A storage     *)
(* operation either takes effect or rejects (the handler's catch block).   *)
(***************************************************************************)
EXTENDS Integers, Sequences, FiniteSets

\* ------------------------------------------------------------------ bounds
MaxReqs == 2          \* stock-mutation requests issued in one behaviour
MaxInFlight == 2      \* requests whose handlers are suspended at an await
MaxFaults == 1        \* storage operations that reject in one behaviour

\* ------------------------------------------------------- program constants
LowStockLimit == 200  \* server.js:530  stock.qty < 200
CriticalLimit == 100  \* server.js:177  currentQty < 100

\* ------------------------------------------------------------------ inputs
\* Product names are sequences of characters: the lookup of /api/stock/add
\* interprets the name as a regular expression.
NameLower == <<"r", "i", "c", "e">>
NameUpper == <<"R", "i", "c", "e">>
NameDot   == <<"r", "i", "c", ".">>
Names == {NameLower, NameUpper, NameDot}
Amounts == {-250, 50, 250}
Usernames == {"alice"}
Kinds == {"add", "increase", "decrease"}
NoUser == ""

VARIABLES
  stocks,     \* Stock collection, in insertion (natural) order: [name, qty]
  staffs,     \* Staff collection: [username, name, email, password]
  logs,       \* StockLog collection, in insertion order
  enquiries,  \* Enquiry collection, in insertion order
  emails,     \* calls of apiInstance.sendTransacEmail, in order
  reqs,       \* the mutation requests: handler position and locals
  faults      \* storage operations that have rejected so far

vars == <<stocks, staffs, logs, enquiries, emails, reqs, faults>>

Rids == 1..MaxReqs

\* ----------------------------------------------------------------- helpers
\* String.prototype.toLowerCase on the characters of the names.
ToLower(c) == IF c = "R" THEN "r" ELSE c

\* new RegExp(`^${name}$`, "i").test(s) for patterns made of letters and ".":
\* "." matches any character, a letter matches itself in either case.
RegExpTest(pattern, s) ==
  /\ Len(pattern) = Len(s)
  /\ \A i \in 1..Len(s) :
       \/ pattern[i] = "."
       \/ ToLower(pattern[i]) = ToLower(s[i])

\* Case-insensitive equality of two names (the spec's notion of the same product).
SameProduct(a, b) ==
  /\ Len(a) = Len(b)
  /\ \A i \in 1..Len(a) : ToLower(a[i]) = ToLower(b[i])

\* Stock.findOne(filter): the first document in natural order, 0 for null.
FirstIndex(S) == IF S = {} THEN 0 ELSE CHOOSE i \in S : \A j \in S : i <= j

FindOneRegex(name) ==
  FirstIndex({i \in 1..Len(stocks) : RegExpTest(name, stocks[i].name)})

FindOneExact(name) ==
  FirstIndex({i \in 1..Len(stocks) : stocks[i].name = name})

\* Staff.findOne({ username })
FindStaff(u) == {s \in staffs : s.username = u}

\* req.session.username || "Unknown Staff"
StaffNameOf(user) == IF user # NoUser THEN user ELSE "Unknown Staff"

\* !name || isNaN(qty) || qty < 0   (names are non-empty, amounts numeric)
InvalidAdd(name, qty) == Len(name) = 0 \/ qty < 0

\* let operation = stock ? "Increase" : "Add"
AddOperation(idx) == IF idx # 0 THEN "Increase" ELSE "Add"

\* Variant of NotEnough with the comparison turned round.
NotEnough_Swapped(qty, amount) == amount < qty

\* stock.qty < amount
NotEnough(qty, amount) == qty < amount

\* Variant of NeedsAlert that takes the limit itself for low stock.
NeedsAlert_Inclusive(qty, user) == qty <= LowStockLimit /\ user # NoUser

\* stock.qty < 200 && req.session.username
NeedsAlert(qty, user) == qty < LowStockLimit /\ user # NoUser

\* ${currentQty < 100 ? 'CRITICALLY LOW' : 'LOW STOCK'}
Severity(qty) == IF qty < CriticalLimit THEN "CRITICALLY LOW" ELSE "LOW STOCK"

NoDoc == [id |-> -1, name |-> <<>>, qty |-> 0]

IdleReq ==
  [pc |-> "idle", kind |-> "none", name |-> <<>>, amount |-> 0, user |-> NoUser,
   found |-> FALSE, doc |-> NoDoc, oldQty |-> 0, operation |-> "none", persisted |-> FALSE,
   alert |-> "none", err |-> "none", status |-> 0]

InFlight == {r \in Rids : reqs[r].pc \notin {"idle", "done"}}

CanFail == faults < MaxFaults

Respond(r, code) == [r EXCEPT !.pc = "done", !.status = code]

\* -------------------------------------------------------------------- Init
StaffDoc(u) ==
  [username |-> u, name |-> <<"name", u>>, email |-> <<"email", u>>,
   password |-> <<"pw", u>>]

\* The server starts against the database earlier runs have left: the staff
\* registered through /api/staff/register, and either no product yet or the
\* product and the StockLog entry that one anonymous /api/stock/add request
\* for 250 has created.
Init ==
  /\ staffs = {StaffDoc(u) : u \in Usernames}
  /\ \/ /\ stocks = <<>>
        /\ logs = <<>>
     \/ /\ stocks = <<[name |-> NameLower, qty |-> 250]>>
        /\ logs = <<[productName |-> NameLower, operation |-> "Add",
                     amount |-> 250, staffName |-> "Unknown Staff", rid |-> 0]>>
  /\ enquiries = <<>>
  /\ emails = <<>>
  /\ reqs = [r \in Rids |-> IdleReq]
  /\ faults = 0

\* req.session.username of an arriving request: none, or the username that
\* POST /login has stored in the client's session (a registered staff).
Sessions == {NoUser} \cup {s.username : s \in staffs}

\* sendEmail(mailOptions): one call of the transport; resolves to
\* {success: true} or {success: false} and never throws.
SendEmail(rid, kind, severity, ok) ==
  Append(emails, [rid |-> rid, kind |-> kind, severity |-> severity, success |-> ok])

\* ------------------------------------------------------ the stock handlers
\* A request arrives: the synchronous head of the handler, up to its first
\* await.  /api/stock/add validates its body; increase and decrease do not.
Arrive(rid, kind, name, amount, user) ==
  /\ reqs[rid].pc = "idle"
  /\ \A q \in Rids : q < rid => reqs[q].pc # "idle"
  /\ LET r == [IdleReq EXCEPT !.kind = kind, !.name = name, !.amount = amount,
                              !.user = user]
     IN reqs' = [reqs EXCEPT ![rid] =
                   IF kind = "add" /\ InvalidAdd(name, amount)
                   THEN Respond(r, 400)
                   ELSE [r EXCEPT !.pc = "find"]]
  /\ UNCHANGED <<stocks, staffs, logs, enquiries, emails, faults>>

StartRequest(rid, kind, name, amount, user) ==
  /\ Cardinality(InFlight) < MaxInFlight
  /\ Arrive(rid, kind, name, amount, user)

\* The document the handler holds after its lookup and its update of qty.
\* add:      stock.qty += qty, or new Stock({ name, qty })
\* increase: stock.qty += amount
\* decrease: stock.qty -= amount
UpdatedDoc(kind, name, amount, idx) ==
  IF idx = 0 THEN [id |-> 0, name |-> name, qty |-> amount]
  ELSE [id |-> idx, name |-> stocks[idx].name,
        qty |-> IF kind = "decrease" THEN stocks[idx].qty - amount
                ELSE stocks[idx].qty + amount]

\* Which document a handler looks up.
Lookup(kind, name) ==
  IF kind = "add" THEN FindOneRegex(name) ELSE FindOneExact(name)

\* await Stock.findOne(...) resolves, and the code up to stock.save() runs.
FindResolved(r) ==
  LET idx == Lookup(r.kind, r.name)
      old == IF idx = 0 THEN 0 ELSE stocks[idx].qty
      read == [r EXCEPT !.found = (idx # 0), !.oldQty = old]
      held == [read EXCEPT !.pc = "save",
                           !.doc = UpdatedDoc(r.kind, r.name, r.amount, idx)]
  IN CASE r.kind = "add" ->
            [held EXCEPT !.operation = AddOperation(idx)]
       [] r.kind = "increase" ->
            IF idx = 0 THEN Respond(read, 404)
            ELSE [held EXCEPT !.operation = "Increase"]
       [] OTHER ->
            IF idx = 0 THEN Respond(read, 404)
            ELSE IF NotEnough(stocks[idx].qty, r.amount)
                 THEN Respond(read, 400)
                 ELSE [held EXCEPT !.operation = "Decrease"]

Find(rid) ==
  /\ reqs[rid].pc = "find"
  /\ reqs' = [reqs EXCEPT ![rid] = FindResolved(reqs[rid])]
  /\ UNCHANGED <<stocks, staffs, logs, enquiries, emails, faults>>

\* A storage operation rejects: the handler's catch block answers 500.
Reject(rid, at) ==
  /\ reqs[rid].pc = at
  /\ CanFail
  /\ faults' = faults + 1
  /\ reqs' = [reqs EXCEPT ![rid] = Respond([reqs[rid] EXCEPT !.err = at], 500)]
  /\ UNCHANGED <<stocks, staffs, logs, enquiries, emails>>

FindRejected(rid) == Reject(rid, "find")
SaveRejected(rid) == Reject(rid, "save")
LogRejected(rid) == Reject(rid, "log")

\* Variant of AfterSave in which the StockLog write comes straight after the
\* Stock write and no alert is raised before it.
AfterSave_LogFirst(kind, qty, user) == "log"

\* Where a handler continues once stock.save() has resolved.
AfterSave(kind, qty, user) ==
  IF kind = "decrease" /\ NeedsAlert(qty, user) THEN "alertFind" ELSE "log"

\* Variant of Save that applies the change of qty to the stored document
\* ($inc) instead of storing the qty computed from the document read ($set).
Save_Inc(rid) ==
  LET r == reqs[rid]
      d == r.doc
      next == AfterSave(r.kind, d.qty, r.user)
  IN /\ r.pc = "save"
     /\ IF d.id = 0 /\ FindOneExact(d.name) # 0
        THEN /\ reqs' = [reqs EXCEPT ![rid] = Respond([r EXCEPT !.err = "save"], 500)]
             /\ UNCHANGED stocks
        ELSE /\ stocks' = IF d.id = 0
                          THEN Append(stocks, [name |-> d.name, qty |-> d.qty])
                          ELSE [stocks EXCEPT ![d.id].qty = @ + (d.qty - r.oldQty)]
             /\ reqs' = [reqs EXCEPT ![rid] =
                           [r EXCEPT !.pc = next, !.persisted = TRUE,
                                     !.alert = IF next = "alertFind"
                                               THEN "pending" ELSE "none"]]
     /\ UNCHANGED <<staffs, logs, enquiries, emails, faults>>

\* await stock.save() resolves: an insert of a new document (the unique index
\* on name rejects a second document of the same name) or a $set of qty on
\* the document read before.
Save(rid) ==
  LET r == reqs[rid]
      d == r.doc
      next == AfterSave(r.kind, d.qty, r.user)
  IN /\ r.pc = "save"
     /\ IF d.id = 0 /\ FindOneExact(d.name) # 0
        THEN /\ reqs' = [reqs EXCEPT ![rid] = Respond([r EXCEPT !.err = "save"], 500)]
             /\ UNCHANGED stocks
        ELSE /\ stocks' = IF d.id = 0
                          THEN Append(stocks, [name |-> d.name, qty |-> d.qty])
                          ELSE [stocks EXCEPT ![d.id].qty = d.qty]
             /\ reqs' = [reqs EXCEPT ![rid] =
                           [r EXCEPT !.pc = next, !.persisted = TRUE,
                                     !.alert = IF next = "alertFind"
                                               THEN "pending" ELSE "none"]]
     /\ UNCHANGED <<staffs, logs, enquiries, emails, faults>>

\* sendLowStockAlert: await Staff.findOne({ username: staffUsername })
AlertFind(rid) ==
  LET r == reqs[rid]
  IN /\ r.pc = "alertFind"
     /\ reqs' = [reqs EXCEPT ![rid] =
                   IF FindStaff(r.user) = {}
                   THEN [r EXCEPT !.pc = "log", !.alert = "nostaff"]
                   ELSE [r EXCEPT !.pc = "alertSave"]]
     /\ UNCHANGED <<stocks, staffs, logs, enquiries, emails, faults>>

\* Variant of LowStockEnquiry with the two quantities in each other's field.
LowStockEnquiry_Swapped(rid, staff, productName, currentQty, operationAmount) ==
  [type |-> "low_stock", staffName |-> staff.name, staffEmail |-> staff.email,
   staffUsername |-> staff.username, productName |-> productName,
   quantity |-> currentQty, currentStock |-> operationAmount, rid |-> rid]

\* The Enquiry document of a low-stock alert.
LowStockEnquiry(rid, staff, productName, currentQty, operationAmount) ==
  [type |-> "low_stock", staffName |-> staff.name, staffEmail |-> staff.email,
   staffUsername |-> staff.username, productName |-> productName,
   quantity |-> operationAmount, currentStock |-> currentQty, rid |-> rid]

\* sendLowStockAlert: await lowStockEnquiry.save()
AlertSave(rid) ==
  LET r == reqs[rid]
      staff == CHOOSE s \in FindStaff(r.user) : TRUE
  IN /\ r.pc = "alertSave"
     /\ enquiries' = Append(enquiries,
                       LowStockEnquiry(rid, staff, r.name, r.doc.qty, r.amount))
     /\ reqs' = [reqs EXCEPT ![rid].pc = "email"]
     /\ UNCHANGED <<stocks, staffs, logs, emails, faults>>

\* Variant of AfterEmail that sends the mail again until it is delivered.
AfterEmail_Retry(ok) == IF ok THEN "log" ELSE "email"

\* What sendLowStockAlert does with emailResult: it logs the result, either
\* way, and returns to the handler, which goes on to the StockLog write.
AfterEmail(ok) == "log"

EmailOutcome(ok) == IF ok THEN "sent" ELSE "sendfail"

\* sendLowStockAlert: await sendEmail(mailOptions)
AlertEmail(rid, ok) ==
  LET r == reqs[rid]
  IN /\ r.pc = "email"
     /\ emails' = SendEmail(rid, "low_stock", Severity(r.doc.qty), ok)
     /\ reqs' = [reqs EXCEPT ![rid] = [r EXCEPT !.pc = AfterEmail(ok), !.alert = EmailOutcome(ok)]]
     /\ UNCHANGED <<stocks, staffs, logs, enquiries, faults>>

\* A storage operation inside sendLowStockAlert rejects: its own catch block
\* logs the error and the handler goes on to the StockLog write.
AlertRejected(rid) ==
  LET r == reqs[rid]
  IN /\ r.pc \in {"alertFind", "alertSave"}
     /\ CanFail
     /\ faults' = faults + 1
     /\ reqs' = [reqs EXCEPT ![rid] =
                   [r EXCEPT !.pc = "log",
                             !.alert = IF r.pc = "alertFind" THEN "stafferr"
                                       ELSE "saveerr"]]
     /\ UNCHANGED <<stocks, staffs, logs, enquiries, emails>>

\* The StockLog document of a request.
StockLogDoc(rid, r) ==
  [productName |-> r.name, operation |-> r.operation, amount |-> r.amount,
   staffName |-> StaffNameOf(r.user), rid |-> rid]

\* await new StockLog({...}).save() resolves, then res.json(...)
Log(rid) ==
  LET r == reqs[rid]
  IN /\ r.pc = "log"
     /\ logs' = Append(logs, StockLogDoc(rid, r))
     /\ reqs' = [reqs EXCEPT ![rid] = Respond(r, 200)]
     /\ UNCHANGED <<stocks, staffs, enquiries, emails, faults>>

\* -------------------------------------------------------------------- Next
Step(rid) ==
  \/ Find(rid)
  \/ FindRejected(rid)
  \/ Save(rid)
  \/ SaveRejected(rid)
  \/ AlertFind(rid)
  \/ AlertSave(rid)
  \/ AlertRejected(rid)
  \/ \E ok \in BOOLEAN : AlertEmail(rid, ok)
  \/ Log(rid)
  \/ LogRejected(rid)

Next ==
  \/ \E rid \in Rids, k \in Kinds, n \in Names, a \in Amounts, u \in Sessions :
       StartRequest(rid, k, n, a, u)
  \/ \E rid \in Rids : Step(rid)

Spec == Init /\ [][Next]_vars

\* Requests served one at a time: a request arrives only when no handler is
\* suspended.
StartAlone(rid, kind, name, amount, user) ==
  /\ InFlight = {}
  /\ Arrive(rid, kind, name, amount, user)

NextSeq ==
  \/ \E rid \in Rids, k \in Kinds, n \in Names, a \in Amounts, u \in Sessions :
       StartAlone(rid, k, n, a, u)
  \/ \E rid \in Rids : Step(rid)

SpecSeq == Init /\ [][NextSeq]_vars

\* ================================================================== claims
LogsOf(rid) == {i \in 1..Len(logs) : logs[i].rid = rid}
EnquiriesOf(rid) == {i \in 1..Len(enquiries) : enquiries[i].rid = rid}
EmailsOf(rid) == {i \in 1..Len(emails) : emails[i].rid = rid}
Done(rid) == reqs[rid].pc = "done"
Succeeded(rid) == Done(rid) /\ reqs[rid].status = 200
Quiescent == InFlight = {}

\* C1 (as claimed): in every reachable state the stored quantity of every
\* product is >= 0, whatever add, increase and decrease requests were served.
C1_QuantityNeverNegative ==
  \A i \in 1..Len(stocks) : stocks[i].qty >= 0

\* C2 (as claimed): every request answered with success has exactly one
\* StockLog record, and that record names the product the request has
\* mutated, the operation kind, the amount and the staff (the session
\* username, or "Unknown Staff"); every StockLog record belongs to a request
\* whose quantity change is persisted.
C2_AuditMatchesMutation ==
  /\ \A rid \in Rids :
       Succeeded(rid) =>
         /\ Cardinality(LogsOf(rid)) = 1
         /\ \A i \in LogsOf(rid) :
              /\ SameProduct(logs[i].productName, reqs[rid].doc.name)
              /\ logs[i].amount = reqs[rid].amount
              /\ logs[i].staffName =
                   (IF reqs[rid].user = NoUser THEN "Unknown Staff" ELSE reqs[rid].user)
              /\ logs[i].operation =
                   (CASE reqs[rid].kind = "decrease" -> "Decrease"
                      [] reqs[rid].kind = "increase" -> "Increase"
                      [] OTHER -> IF reqs[rid].found THEN "Increase" ELSE "Add")
  /\ \A rid \in Rids : LogsOf(rid) # {} => reqs[rid].persisted

\* C3: every decrease by an acting staff member that has persisted a quantity
\* below 200 and has run its alert without a storage rejection has exactly
\* one low_stock Enquiry record (currentStock = the new quantity, quantity =
\* the amount removed, staffUsername = the acting username) and exactly one
\* sendEmail call, whatever alerts the product has had before.
AlertRan(rid) ==
  /\ reqs[rid].kind = "decrease"
  /\ reqs[rid].persisted
  /\ reqs[rid].pc \in {"log", "done"}
  /\ reqs[rid].alert \notin {"stafferr", "saveerr"}

C3_AlertOnEveryLowDecrease ==
  \A rid \in Rids :
    (AlertRan(rid) /\ reqs[rid].user # NoUser /\ reqs[rid].doc.qty < LowStockLimit) =>
      /\ Cardinality(EnquiriesOf(rid)) = 1
      /\ Cardinality(EmailsOf(rid)) = 1
      /\ \A i \in EnquiriesOf(rid) :
           /\ enquiries[i].type = "low_stock"
           /\ enquiries[i].currentStock = reqs[rid].doc.qty
           /\ enquiries[i].currentStock = reqs[rid].oldQty - reqs[rid].amount
           /\ enquiries[i].quantity = reqs[rid].amount
           /\ enquiries[i].staffUsername = reqs[rid].user
           /\ enquiries[i].productName = reqs[rid].name

\* Two decreases of the same product have both raised their alert.
C3_Witness ==
  \E a, b \in Rids :
    /\ a # b
    /\ Succeeded(a) /\ Succeeded(b)
    /\ reqs[a].name = reqs[b].name
    /\ EnquiriesOf(a) # {} /\ EnquiriesOf(b) # {}
    /\ EmailsOf(a) # {} /\ EmailsOf(b) # {}

\* C4: an Enquiry record or a sendEmail call of a request exists only if the
\* request is a decrease with a session username whose new quantity is below
\* 200: none for an anonymous request, none at 200 or more, none for add or
\* increase.
C4_NoAlertOtherwise ==
  \A rid \in Rids :
    (EnquiriesOf(rid) # {} \/ EmailsOf(rid) # {}) =>
      /\ reqs[rid].kind = "decrease"
      /\ reqs[rid].user # NoUser
      /\ reqs[rid].persisted
      /\ reqs[rid].doc.qty < LowStockLimit

\* An anonymous decrease to below 200 and a staff decrease to 200 or more
\* have both succeeded, and neither has an Enquiry record or a mail.
C4_Witness ==
  \E a, b \in Rids :
    /\ Succeeded(a) /\ Succeeded(b)
    /\ reqs[a].kind = "decrease" /\ reqs[a].user = NoUser
    /\ reqs[a].doc.qty < LowStockLimit
    /\ reqs[b].kind = "decrease" /\ reqs[b].user # NoUser
    /\ reqs[b].doc.qty >= LowStockLimit
    /\ enquiries = <<>> /\ emails = <<>>

\* C5: a decrease that finds the product with less than the amount is
\* answered 400 and has persisted nothing: no quantity, no StockLog record,
\* no Enquiry record, no mail.
C5_InsufficientStockRejected ==
  \A rid \in Rids :
    (reqs[rid].kind = "decrease" /\ reqs[rid].found
       /\ reqs[rid].oldQty < reqs[rid].amount) =>
      /\ Done(rid)
      /\ reqs[rid].status = 400
      /\ ~reqs[rid].persisted
      /\ LogsOf(rid) = {} /\ EnquiriesOf(rid) = {} /\ EmailsOf(rid) = {}

\* A decrease of more than the product holds has been answered.
C5_Witness ==
  \E rid \in Rids :
    /\ reqs[rid].kind = "decrease" /\ reqs[rid].found
    /\ reqs[rid].oldQty < reqs[rid].amount
    /\ reqs[rid].oldQty > 0
    /\ Done(rid)

\* The StockLog amounts of a product (its name matched without regard to
\* case), Add and Increase counted positive and Decrease negative.
RECURSIVE SignedSum(_, _)
SignedSum(ls, name) ==
  IF ls = <<>> THEN 0
  ELSE LET l == Head(ls)
           v == IF ~SameProduct(l.productName, name) THEN 0
                ELSE IF l.operation = "Decrease" THEN 0 - l.amount
                ELSE l.amount
       IN v + SignedSum(Tail(ls), name)

\* C6 (as claimed): once the requests, served one at a time and without a
\* storage rejection, are all answered, the quantity GET /api/stock lists for
\* a product is the sum of its logged Add and Increase amounts minus its
\* logged Decrease amounts.
C6_QuantityIsLedgerSum ==
  (Quiescent /\ faults = 0) =>
    \A i \in 1..Len(stocks) : stocks[i].qty = SignedSum(logs, stocks[i].name)

\* C7: a decrease whose alert mail has failed has its quantity persisted and
\* exactly one Enquiry record and one sendEmail call (no retry); once its
\* StockLog write has resolved it is answered 200 with exactly one StockLog
\* record; and no step a request takes after persisting its quantity touches
\* the Stock collection (nothing is rolled back).
C7_MailFailed(rid) == reqs[rid].alert = "sendfail"

C7_NotifierFailureTolerated ==
  /\ [](\A rid \in Rids :
          C7_MailFailed(rid) =>
            /\ reqs[rid].persisted
            /\ Cardinality(EnquiriesOf(rid)) = 1
            /\ Cardinality(EmailsOf(rid)) = 1
            /\ (Done(rid) /\ reqs[rid].err = "none") =>
                 /\ reqs[rid].status = 200
                 /\ Cardinality(LogsOf(rid)) = 1)
  /\ [][\A rid \in Rids :
          (reqs[rid].persisted /\ reqs'[rid] # reqs[rid]) => stocks' = stocks]_vars

\* A decrease whose alert mail has failed is answered with success.
C7_Witness ==
  \E rid \in Rids :
    /\ C7_MailFailed(rid)
    /\ Succeeded(rid)
    /\ \E i \in EmailsOf(rid) : ~emails[i].success

\* C8 (as claimed): when the Stock write of an add request resolves, then if
\* no product had the request's name (case disregarded) a product of that
\* name and quantity == amount is created and the operation is "Add", and
\* otherwise no product is created, the product of that name has its quantity
\* raised by the amount and the operation is "Increase".
C8_AddStep(rid) ==
  LET r == reqs[rid]
      same == {i \in 1..Len(stocks) : SameProduct(stocks[i].name, r.name)}
  IN (r.kind = "add" /\ r.pc = "save" /\ reqs'[rid].persisted) =>
       IF same = {}
       THEN /\ stocks' = Append(stocks, [name |-> r.name, qty |-> r.amount])
            /\ r.operation = "Add"
       ELSE /\ Len(stocks') = Len(stocks)
            /\ \A i \in same : stocks'[i].qty = stocks[i].qty + r.amount
            /\ r.operation = "Increase"

C8_AddOrIncrease == [][\A rid \in Rids : C8_AddStep(rid)]_vars

AlertOver(rid) ==
  reqs[rid].alert \in {"sent", "sendfail", "nostaff", "stafferr", "saveerr"}

C10_TailFailureNotSurfaced ==
  \A rid \in Rids :
    (Done(rid) /\ reqs[rid].persisted) => reqs[rid].status = 200

\* C11 (as claimed): a mutation request with a negative amount is rejected
\* before it touches storage, whether it is an add, an increase or a
\* decrease: it persists no quantity, has no StockLog record and is not
\* answered with success.
C11_InvalidInputRejected ==
  \A rid \in Rids :
    (reqs[rid].kind \in Kinds /\ reqs[rid].amount < 0) =>
      /\ ~reqs[rid].persisted
      /\ LogsOf(rid) = {}
      /\ Done(rid) => reqs[rid].status # 200

\* Two decreases of one stored product that have both read the same quantity
\* and both written theirs, no other request having written that product.
RacingDecreases(a, b) ==
  /\ a # b
  /\ reqs[a].kind = "decrease" /\ reqs[b].kind = "decrease"
  /\ reqs[a].persisted /\ reqs[b].persisted
  /\ reqs[a].doc.id = reqs[b].doc.id
  /\ reqs[a].oldQty = reqs[b].oldQty
  /\ \A c \in Rids \ {a, b} :
       ~(reqs[c].persisted /\ reqs[c].doc.id = reqs[a].doc.id)

\* C12: two decreases that have read the same quantity of a product have each
\* passed the check of their amount against it, and the quantity they leave
\* is what the later writer has computed from that reading: the reading less
\* one of the two amounts, never the reading less both (a lost update).
C12_LostUpdate ==
  \A a, b \in Rids :
    RacingDecreases(a, b) =>
      LET old == reqs[a].oldQty
          qty == stocks[reqs[a].doc.id].qty
      IN /\ reqs[a].amount <= old /\ reqs[b].amount <= old
         /\ qty \in {old - reqs[a].amount, old - reqs[b].amount}
         /\ qty # old - reqs[a].amount - reqs[b].amount

\* Two decreases by positive amounts have read the same quantity, both are
\* answered with success, and the product holds more than the quantity read
\* less the two amounts.
C12_Witness ==
  \E a, b \in Rids :
    /\ RacingDecreases(a, b)
    /\ Succeeded(a) /\ Succeeded(b)
    /\ Quiescent
    /\ reqs[a].amount > 0 /\ reqs[b].amount > 0
    /\ stocks[reqs[a].doc.id].qty >
         reqs[a].oldQty - reqs[a].amount - reqs[b].amount

====
